---- MODULE Spec2Model ----
(***************************************************************************)
(* Fire-engine dispatch simulator: the vehicle state machine               *)
(* (env/fire_engine.py), the incident object (env/fire_event.py) and the   *)
(* dispatch engine (env/simulator_core.py).                                *)
(*                                                                         *)
(* Two specifications share one set of variables:                          *)
(*   SpecEngine  one free-standing FireEngine driven by arbitrary          *)
(*               assign_to_event / update / reset calls;                   *)
(*   Spec        one Simulator driven by reset / step calls.               *)
(* Times are integers: Simulator.time and FireEvent.timestamp are ints,    *)
(* so every delta handed to FireEngine.update is an integer.               *)
(***************************************************************************)
EXTENDS Integers, Sequences, FiniteSets, TLC

VARIABLES
    \* ---- Simulator fields (simulator_core.py) ----
    cooldown_seconds,   \* config["cooldown_seconds"]
    engines,            \* Simulator.engines: sequence of FireEngine, index = id + 1
    pending_events,     \* Simulator.pending_events (deque of FireEvent)
    finished_events,    \* Simulator.finished_events
    response_times,     \* Simulator.response_times
    dispatch_history,   \* Simulator.dispatch_history
    time,               \* Simulator.time
    step_count,         \* Simulator.step_count
    max_steps,          \* Simulator.max_steps, from config["max_steps"]
    \* ---- FireDispatchEnv fields (environment.py) ----
    last_sorted_actions, \* FireDispatchEnv.last_sorted_actions
    obs_dim,            \* config["obs_dim"]
    obs_engine_count,   \* config["obs_engine_count"]
    \* ---- observation of the last Simulator call ----
    ret,                \* value returned by the last step call
    last,               \* which call ran last, on which incident, by which path
    trail,              \* per vehicle: the statuses it was given during the last call
    advanced,           \* per vehicle: seconds handed to update during the last call
    popped,             \* timestamps popped from the queue since the last reset
    lost,               \* the incidents popped without a dispatch since the last reset, as step left them
    loaded,             \* ids of the incidents in the queue right after the last reset
    ranked,             \* value returned by the last get_sorted_available_engines call, or None
    obs,                \* value returned by the last get_observation call, or None
    env_done,               \* the done flag returned by the last FireDispatchEnv.step, or None
    \* ---- one free-standing FireEngine (fire_engine.py) ----
    veh,                \* the vehicle
    vcall,              \* the last call made on it, with its arguments
    vbefore,            \* the vehicle as it was before that call
    vtrail,             \* the statuses it was given during that call
    asg,                \* arguments of the assignment in force, or None
    base,               \* the vehicle right after its last assignment or reset
    run                 \* sum of the update deltas since then

simvars == <<cooldown_seconds, engines, pending_events, finished_events,
             response_times, dispatch_history, time, step_count, max_steps,
             last_sorted_actions, obs_dim, obs_engine_count,
             ret, last, trail, advanced, popped, lost, loaded, ranked, obs, env_done>>
\* what the feature encoder reads of the configuration, and its result
obsvars == <<obs_dim, obs_engine_count, obs>>
\* the variables the Simulator's own calls never touch
envvars == <<last_sorted_actions, ranked, obs_dim, obs_engine_count, obs, env_done>>
vehvars == <<veh, vcall, vbefore, vtrail, asg, base, run>>
vars == <<cooldown_seconds, engines, pending_events, finished_events,
          response_times, dispatch_history, time, step_count, max_steps,
          last_sorted_actions, obs_dim, obs_engine_count,
          ret, last, trail, advanced, popped, lost, loaded, ranked, obs, env_done,
          veh, vcall, vbefore, vtrail, asg, base, run>>

(* ---------------------------- bounds ----------------------------------- *)
\* the values config["cooldown_seconds"] is drawn from
CooldownChoices == {0, 1, 2}
\* largest driving / reaction / on-scene time of a free-standing assignment
MaxDur == 2
\* largest delta of one free-standing update call
MaxDelta == 4
\* largest sum of deltas since the last assignment or reset of the vehicle
MaxElapsed == 9
\* largest number of assignments of the free-standing vehicle between resets
MaxAssign == 2

(* ---------------------------- optional values -------------------------- *)
\* Python None / a missing dictionary key, and a present value
None == <<>>
Some(x) == <<x>>

\* the value pandas gives an empty cell of a column: a float that is no
\* number
NaN == <<"nan", "nan">>

(* ======================= FireEngine (fire_engine.py) =================== *)

\* a variant that parks a new vehicle at the origin
FireEngine_at_origin(engine_id, home, cooldown) ==
    [id |-> engine_id, home_node |-> home, current_node |-> <<0, 0>>,
     status |-> "available", remaining_time |-> 0,
     cooldown_duration |-> cooldown,
     dispatch_count |-> 0, total_driving_time |-> 0]

\* FireEngine.__init__
FireEngine(engine_id, home, cooldown) ==
    [id |-> engine_id, home_node |-> home, current_node |-> home,
     status |-> "available", remaining_time |-> 0,
     cooldown_duration |-> cooldown,
     dispatch_count |-> 0, total_driving_time |-> 0]

\* a variant that does not count the dispatch
assign_to_event_uncounted(e, event_node, driving_seconds, reaction_seconds, on_scene_seconds) ==
    [e EXCEPT !.status = "driving",
              !.remaining_time = reaction_seconds + driving_seconds
                                 + on_scene_seconds + driving_seconds,
              !.current_node = event_node,
              !.total_driving_time = @ + driving_seconds]

\* FireEngine.assign_to_event: no guard on the current status
assign_to_event(e, event_node, driving_seconds, reaction_seconds, on_scene_seconds) ==
    LET total_active_time == reaction_seconds + driving_seconds
                             + on_scene_seconds + driving_seconds
    IN [e EXCEPT !.status = "driving",
                 !.remaining_time = total_active_time,
                 !.current_node = event_node,
                 !.dispatch_count = @ + 1,
                 !.total_driving_time = @ + driving_seconds]

\* a variant of the transition that frees a driving vehicle at once
transition_skip_cooling(e) ==
    IF e.status \in {"driving", "cooling"}
    THEN [e EXCEPT !.status = "available", !.remaining_time = 0,
                   !.current_node = e.home_node]
    ELSE e

\* a variant whose cooled vehicle becomes free where it stands
transition_stays_at_scene(e) ==
    IF e.status = "driving"
    THEN [e EXCEPT !.status = "cooling", !.remaining_time = e.cooldown_duration]
    ELSE IF e.status = "cooling"
    THEN [e EXCEPT !.status = "available", !.remaining_time = 0]
    ELSE e

\* the two transitions of update: driving -> cooling, cooling -> available
transition(e) ==
    IF e.status = "driving"
    THEN [e EXCEPT !.status = "cooling", !.remaining_time = e.cooldown_duration]
    ELSE IF e.status = "cooling"
    THEN [e EXCEPT !.status = "available", !.remaining_time = 0,
                   !.current_node = e.home_node]
    ELSE e

\* a variant of the loop that stops after the first transition
update_run_one_transition(e, time_left, path) ==
    IF time_left > 0 /\ e.status # "available"
    THEN IF e.remaining_time > time_left
         THEN [eng |-> [e EXCEPT !.remaining_time = @ - time_left], path |-> path]
         ELSE [eng |-> transition(e), path |-> Append(path, transition(e).status)]
    ELSE [eng |-> e, path |-> path]

\* the while loop of FireEngine.update; path collects every status the
\* vehicle is given on the way
RECURSIVE update_run(_, _, _)
update_run(e, time_left, path) ==
    IF time_left > 0 /\ e.status # "available"
    THEN IF e.remaining_time >= time_left
         THEN LET e1 == [e EXCEPT !.remaining_time = @ - time_left]
              IN IF e1.remaining_time = 0
                 THEN [eng |-> transition(e1),
                       path |-> Append(path, transition(e1).status)]
                 ELSE [eng |-> e1, path |-> path]
         ELSE LET e2 == transition(e)
              IN update_run(e2, time_left - e.remaining_time,
                            Append(path, e2.status))
    ELSE [eng |-> e, path |-> path]

\* FireEngine.update(seconds)
update(e, seconds) == update_run(e, seconds, <<e.status>>).eng

\* a variant that reports every vehicle that is not cooling as free
is_available_unless_cooling(e) == e.status # "cooling"

\* a variant that reports every vehicle as free
is_available_always(e) == TRUE

\* FireEngine.is_available
is_available(e) == e.status = "available"

\* FireEngine.reset
reset(e) ==
    [e EXCEPT !.status = "available", !.remaining_time = 0,
              !.current_node = e.home_node,
              !.dispatch_count = 0, !.total_driving_time = 0]


(* ======================= configuration ================================ *)

\* config["station_engine_counts"]: stations in dictionary order, vehicles each
station_engine_counts ==
    << [station |-> "A", count |-> 1],
       [station |-> "B", count |-> 1],
       [station |-> "C", count |-> 1] >>

\* config["station_xy"]: home coordinates; station "C" has none and
\* config["station_dists"] is empty, so it falls back to (0, 0)
station_xy == [s \in {"A", "B"} |-> IF s = "A" THEN <<1, 1>> ELSE <<2, 2>>]

\* config["max_steps"] of the Simulator runs
ConfiguredMaxSteps == 3

\* the values config["max_steps"] is drawn from where the step budget matters
BudgetChoices == {1, 2}

\* config["event_station_times"]: rows are incident numbers, columns are
\* station names; a lookup outside the rows or the columns raises KeyError
TableRows == {10, 11}
TableCols == {"A", "B"}
event_station_times ==
    [c \in TableRows \X TableCols |->
        IF c = <<11, "A">> THEN 2 ELSE 1]

\* the fallback travel time of a failed lookup
FallbackSeconds == 3600

(* ======================= FireEvent (fire_event.py) ===================== *)

\* the rows an incident table is made of: call_time is already in seconds
\* since 2009-01-01 (negative for a call before that day), the other
\* columns are those FireEvent reads
RowSet ==
    { [call_time |-> -2, graph_node |-> <<5, 5>>, incident_profile_label |-> "Low Risk",
       reaction_seconds |-> 0, on_scene_seconds |-> 1, Incident_Number |-> 10,
       dispatched_vehicle_count |-> None],
      [call_time |-> 3, graph_node |-> <<6, 6>>, incident_profile_label |-> " High Risk ",
       reaction_seconds |-> 1, on_scene_seconds |-> 1, Incident_Number |-> 11,
       dispatched_vehicle_count |-> None],
      [call_time |-> 3, graph_node |-> <<7, 7>>, incident_profile_label |-> "low risk",
       reaction_seconds |-> 0, on_scene_seconds |-> 1, Incident_Number |-> 12,
       dispatched_vehicle_count |-> None],
      [call_time |-> 7, graph_node |-> <<5, 5>>, incident_profile_label |-> "Medium Risk",
       reaction_seconds |-> 0, on_scene_seconds |-> 1, Incident_Number |-> 10,
       dispatched_vehicle_count |-> Some(2)] }

\* the risk labels of the incident tables
Labels ==
    {"Low Risk", " High Risk ", "low risk", "Medium Risk", "HIGH RISK",
     "Secondary Fires that attract a 20 minute-response time ",
     "High Risk Area", "False Alarms"}

\* str.strip() on the labels
strip(label) ==
    CASE label = " High Risk " -> "High Risk"
      [] label = "Secondary Fires that attract a 20 minute-response time "
            -> "Secondary Fires that attract a 20 minute-response time"
      [] OTHER -> label

\* str.lower() on the labels, stripped or not
lower(label) ==
    CASE label = "Low Risk" -> "low risk"
      [] label = "High Risk" -> "high risk"
      [] label = " High Risk " -> " high risk "
      [] label = "HIGH RISK" -> "high risk"
      [] label = "Medium Risk" -> "medium risk"
      [] label = "Secondary Fires that attract a 20 minute-response time"
            -> "secondary fires that attract a 20 minute-response time"
      [] label = "Secondary Fires that attract a 20 minute-response time "
            -> "secondary fires that attract a 20 minute-response time "
      [] label = "High Risk Area" -> "high risk area"
      [] label = "False Alarms" -> "false alarms"
      [] OTHER -> label

\* str(label).strip().lower()
strip_lower(label) == lower(strip(label))

\* FireEvent.from_row followed by Simulator._generate_events' incident_index
from_row(row, eid) ==
    [id |-> eid, graph_node |-> row.graph_node, timestamp |-> row.call_time,
     risk_level |-> row.incident_profile_label,
     reaction_seconds |-> row.reaction_seconds,
     on_scene_seconds |-> row.on_scene_seconds,
     incident_index |-> row.Incident_Number,
     dispatched_vehicle_count |-> row.dispatched_vehicle_count,
     true_driving_seconds |-> 999,
     assigned |-> FALSE, responder_id |-> None, response_time |-> None]

\* FireEvent.is_high_risk
is_high_risk(ev) ==
    strip_lower(ev.risk_level) \in
        {"high risk", "secondary fires that attract a 20 minute-response time"}

\* int(...) of get_required_dispatch_count raises ValueError: the cell of
\* the incident's row is NaN
int_raises(ev) == ev.dispatched_vehicle_count = NaN

\* FireEvent.get_required_dispatch_count, where int(...) returns
get_required_dispatch_count(ev) ==
    IF ev.dispatched_vehicle_count # None
    THEN ev.dispatched_vehicle_count[1]
    ELSE IF is_high_risk(ev) THEN 2 ELSE 1

\* a variant that does not raise the assigned flag
mark_responded_unflagged(ev, responder_id, response_time) ==
    [ev EXCEPT !.responder_id = Some(responder_id),
               !.response_time = Some(response_time),
               !.true_driving_seconds = response_time]

\* a variant that keeps the first responder of an incident
mark_responded_first(ev, responder_id, response_time) ==
    IF ev.assigned THEN ev
    ELSE [ev EXCEPT !.assigned = TRUE, !.responder_id = Some(responder_id),
                    !.response_time = Some(response_time),
                    !.true_driving_seconds = response_time]

\* FireEvent.mark_responded
mark_responded(ev, responder_id, response_time) ==
    [ev EXCEPT !.assigned = TRUE, !.responder_id = Some(responder_id),
               !.response_time = Some(response_time),
               !.true_driving_seconds = response_time]

(* ======================= Simulator (simulator_core.py) ================= *)

Min(a, b) == IF a <= b THEN a ELSE b
Max(a, b) == IF a >= b THEN a ELSE b

RECURSIVE Sum(_)
Sum(s) == IF s = <<>> THEN 0 ELSE Head(s) + Sum(Tail(s))

RECURSIVE MinOf(_)
MinOf(s) == IF Len(s) = 1 THEN s[1] ELSE Min(s[1], MinOf(Tail(s)))

\* the for loops of Simulator._init_engines: the station and the home node
\* of every vehicle, ids counting up from 0 in station order
RECURSIVE init_stations(_, _)
init_stations(k, acc) ==
    IF k > Len(station_engine_counts) THEN acc
    ELSE LET station == station_engine_counts[k].station
             home_node == IF station \in DOMAIN station_xy
                          THEN station_xy[station] ELSE <<0, 0>>
         IN init_stations(k + 1,
               acc \o [j \in 1..station_engine_counts[k].count |->
                          [station |-> station, home_node |-> home_node]])

fleet == init_stations(1, <<>>)

\* Simulator.engines as built by _init_engines; engines[id + 1] is vehicle id
init_engines ==
    [k \in DOMAIN fleet |-> FireEngine(k - 1, fleet[k].home_node, cooldown_seconds)]

\* Simulator.station_mapping as built by _init_engines
station_mapping == [k \in DOMAIN fleet |-> fleet[k].station]

\* ids of the fleet
EngineIds == 0..(Len(fleet) - 1)

\* events.sort(key=timestamp): a stable sort
RECURSIVE insert_sorted(_, _)
insert_sorted(sorted, ev) ==
    IF sorted = <<>> THEN <<ev>>
    ELSE IF Head(sorted).timestamp <= ev.timestamp
         THEN <<Head(sorted)>> \o insert_sorted(Tail(sorted), ev)
         ELSE <<ev>> \o sorted

RECURSIVE sort_by_timestamp(_)
sort_by_timestamp(events) ==
    IF events = <<>> THEN <<>>
    ELSE insert_sorted(sort_by_timestamp(SubSeq(events, 1, Len(events) - 1)),
                       events[Len(events)])

\* a variant of the load that keeps the rows in table order
generate_events_unsorted(df) ==
    [k \in 1..Len(df) |-> from_row(df[k], k - 1)]

\* Simulator._generate_events
generate_events(df) ==
    sort_by_timestamp([k \in 1..Len(df) |-> from_row(df[k], k - 1)])

\* a variant whose failed lookup costs nothing
lookup_or_fallback_zero(incident_index, station) ==
    IF <<incident_index, station>> \in DOMAIN event_station_times
    THEN event_station_times[<<incident_index, station>>]
    ELSE 0

\* the try/except around event_station_times.at[incident_index, station]
lookup_or_fallback(incident_index, station) ==
    IF <<incident_index, station>> \in DOMAIN event_station_times
    THEN event_station_times[<<incident_index, station>>]
    ELSE FallbackSeconds

\* a variant that keeps the whole selection
slice_to_all(s, n) == s

\* engine_ids[:dispatch_count]
slice_to(s, n) ==
    IF n >= 0 THEN SubSeq(s, 1, Min(n, Len(s)))
    ELSE SubSeq(s, 1, Max(0, Len(s) + n))

\* the info dictionary of a step: keys names the keys present
EmptyInfo ==
    [keys |-> {}, error |-> "", event_id |-> -1, dispatched_engines |-> <<>>,
     min_response_time |-> 0, response_times |-> <<>>]

\* one dispatch record; a field that is None or absent is None
DispatchRecord(ev, engine_id, station, response_time, count, error) ==
    [event_id |-> ev.id, incident_index |-> ev.incident_index,
     engine_id |-> engine_id, station |-> station,
     response_time |-> response_time, risk_level |-> ev.risk_level,
     timestamp |-> ev.timestamp,
     dispatched_vehicle_count |-> count, error |-> error]


(* ----------------------- Simulator.step -------------------------------- *)

\* bounds of the Simulator runs
\* largest number of rows of an incident table handed to reset
MaxEvents == 2
\* largest length of the selection handed to step
MaxSel == 2
\* largest step_count a run is followed to
MaxCalls == 3

\* sequences over S of length lo..hi
SeqsUpTo(S, lo, hi) == UNION {[1..n -> S] : n \in lo..hi}

\* the incident tables reset may be given: up to MaxEvents different rows,
\* in any order
EventTables ==
    {t \in SeqsUpTo(RowSet, 0, MaxEvents) :
        \A i, j \in DOMAIN t : i # j => t[i] # t[j]}

\* the selections step may be given: ids of the fleet, repeats allowed
Selections == SeqsUpTo(EngineIds, 0, MaxSel)

\* a variant of the advance that moves the clock but only the idle vehicles
advance_to_idle_only(es, clock, event_time) ==
    IF clock < event_time
    THEN [time |-> event_time,
          engines |-> [k \in DOMAIN es |->
                          IF is_available(es[k]) THEN update(es[k], event_time - clock)
                          ELSE es[k]],
          trail |-> [k \in DOMAIN es |-> <<es[k].status>>],
          advanced |-> [k \in DOMAIN es |->
                          IF is_available(es[k]) THEN event_time - clock ELSE 0]]
    ELSE [time |-> clock, engines |-> es,
          trail |-> [k \in DOMAIN es |-> <<es[k].status>>],
          advanced |-> [k \in DOMAIN es |-> 0]]

\* lines 114-119 of step: the idle time before the head incident, handed
\* to every vehicle; the result carries the seconds each vehicle was given
advance_to(es, clock, event_time) ==
    IF clock < event_time
    THEN [time |-> event_time,
          engines |-> [k \in DOMAIN es |-> update(es[k], event_time - clock)],
          trail |-> [k \in DOMAIN es |->
                        update_run(es[k], event_time - clock, <<es[k].status>>).path],
          advanced |-> [k \in DOMAIN es |-> event_time - clock]]
    ELSE [time |-> clock, engines |-> es,
          trail |-> [k \in DOMAIN es |-> <<es[k].status>>],
          advanced |-> [k \in DOMAIN es |-> 0]]

\* self.engines[engine_id]: Python list indexing, which counts a negative
\* index from the end and raises IndexError outside -n .. n-1
index_in_range(engine_id) ==
    engine_id >= 0 - Len(fleet) /\ engine_id < Len(fleet)
list_index(engine_id) ==
    IF engine_id >= 0 THEN engine_id + 1 ELSE Len(fleet) + engine_id + 1

\* self.station_mapping.get(engine_id): None for an id that is no key
station_get(engine_id) ==
    IF engine_id \in EngineIds THEN Some(station_mapping[engine_id + 1]) ELSE None

\* the travel time step uses for (incident_index, station): a station of
\* None is in no column, so its lookup fails
driving_seconds_for(incident_index, station) ==
    IF station = None THEN FallbackSeconds
    ELSE lookup_or_fallback(incident_index, station[1])

\* one round of the for loop of step (lines 132-175) for engine_ids[i]
\* (i counts from 0 as enumerate does); st carries the loop's locals and
\* whether self.engines[engine_id] raised
dispatch_one(st, ev, ids, i, dispatch_count) ==
    LET engine_id == ids[i + 1]
    IN IF ~ index_in_range(engine_id) THEN [st EXCEPT !.raised = TRUE]
       ELSE
       LET engine == st.engines[list_index(engine_id)]
       IN IF ~ is_available(engine) THEN st
          ELSE LET station == station_get(engine_id)
                   incident_index == st.event.incident_index
                   driving_seconds == driving_seconds_for(incident_index, station)
                   assigned == assign_to_event(engine, st.event.graph_node,
                                               driving_seconds,
                                               st.event.reaction_seconds,
                                               st.event.on_scene_seconds)
                   record == DispatchRecord(st.event, Some(engine_id), station,
                                            Some(driving_seconds),
                                            IF i = 0 THEN Some(dispatch_count) ELSE None,
                                            None)
               IN [engines |-> [st.engines EXCEPT ![list_index(engine_id)] = assigned],
                   event |-> mark_responded(st.event, engine_id, driving_seconds),
                   dispatch_history |-> Append(st.dispatch_history, record),
                   rewards |-> Append(st.rewards, 0 - driving_seconds * driving_seconds),
                   response_times |-> Append(st.response_times, driving_seconds),
                   used_engines |-> Append(st.used_engines, engine_id),
                   trail |-> [st.trail EXCEPT ![list_index(engine_id)] =
                                                 Append(@, assigned.status)],
                   raised |-> FALSE]

RECURSIVE dispatch_loop(_, _, _, _, _)
dispatch_loop(st, ev, ids, i, dispatch_count) ==
    IF i >= Len(ids) \/ st.raised THEN st
    ELSE dispatch_loop(dispatch_one(st, ev, ids, i, dispatch_count),
                       ev, ids, i + 1, dispatch_count)

\* Simulator.step on a non-empty queue, up to the end of the for loop
step_dispatch(engine_ids) ==
    LET head == pending_events[1]
        adv == advance_to(engines, time, head.timestamp)
        dispatch_count == get_required_dispatch_count(head)
        ids == slice_to(engine_ids, dispatch_count)
        st0 == [engines |-> adv.engines, event |-> head,
                dispatch_history |-> dispatch_history,
                rewards |-> <<>>, response_times |-> <<>>, used_engines |-> <<>>,
                trail |-> adv.trail, raised |-> FALSE]
        st == dispatch_loop(st0, head, ids, 0, dispatch_count)
    IN [adv |-> adv, st |-> st, event |-> st.event, ids |-> ids,
        dispatch_count |-> dispatch_count]

\* what last records of a call
Called(op, branch, event_id, timestamp, considered, count) ==
    [op |-> op, branch |-> branch, event_id |-> event_id, timestamp |-> timestamp,
     considered |-> considered, count |-> count]

(* ----------------------- Simulator.get_sorted_available_engines -------- *)

\* t of the ranking: the table entry, or float("inf") when the lookup fails
travel_or_inf(incident_index, station) ==
    IF <<incident_index, station>> \in DOMAIN event_station_times
    THEN [inf |-> FALSE, seconds |-> event_station_times[<<incident_index, station>>]]
    ELSE [inf |-> TRUE, seconds |-> 0]

\* t1 < t2 and t1 == t2 on floats that may be inf
float_less(t1, t2) ==
    \/ ~ t1.inf /\ t2.inf
    \/ ~ t1.inf /\ ~ t2.inf /\ t1.seconds < t2.seconds
float_equal(t1, t2) ==
    \/ t1.inf /\ t2.inf
    \/ ~ t1.inf /\ ~ t2.inf /\ t1.seconds = t2.seconds

\* a variant of the key order that leaves the dispatch count out
key_less_without_count(x, y) ==
    \/ float_less(x.t, y.t)
    \/ float_equal(x.t, y.t) /\ x.id < y.id

\* (x[1], x[2], x[0]) < (y[1], y[2], y[0]): Python's tuple order on
\* (t, dispatch_count, id)
key_less(x, y) ==
    \/ float_less(x.t, y.t)
    \/ float_equal(x.t, y.t) /\ x.dispatch_count < y.dispatch_count
    \/ float_equal(x.t, y.t) /\ x.dispatch_count = y.dispatch_count /\ x.id < y.id

\* sorted(times, key=...): a stable sort
RECURSIVE insert_by_key(_, _)
insert_by_key(sorted, x) ==
    IF sorted = <<>> THEN <<x>>
    ELSE IF key_less(x, Head(sorted))
         THEN <<x>> \o sorted
         ELSE <<Head(sorted)>> \o insert_by_key(Tail(sorted), x)

RECURSIVE sorted_by_key(_)
sorted_by_key(times) ==
    IF times = <<>> THEN <<>>
    ELSE insert_by_key(sorted_by_key(SubSeq(times, 1, Len(times) - 1)),
                       times[Len(times)])

\* Simulator.get_sorted_available_engines on the fleet es and the queue
get_sorted_available_engines(es, queue) ==
    LET candidates == SelectSeq(es, is_available)
    IN IF candidates = <<>> \/ queue = <<>> THEN <<>>
       ELSE LET incident_index == queue[1].incident_index
                times == [k \in DOMAIN candidates |->
                            [id |-> candidates[k].id,
                             t |-> travel_or_inf(incident_index,
                                                 station_mapping[candidates[k].id + 1]),
                             dispatch_count |-> candidates[k].dispatch_count]]
                sorted == sorted_by_key(times)
            IN [k \in DOMAIN sorted |-> sorted[k].id]

\* a variant that returns the sum of the rewards
mean_as_sum(xs) == [num |-> Sum(xs), den |-> 1]

\* np.mean(rewards) (line 202) as the fraction num / den
mean(xs) == [num |-> Sum(xs), den |-> Len(xs)]

\* a variant of the pop that empties the queue
popleft_all(q) == <<>>

\* a variant of the pop that only peeks at the head incident
popleft_keep(q) == q

\* pending_events.popleft(): the queue without its head
popleft(q) == Tail(q)

\* the record appended when no vehicle was dispatched (lines 178-187)
error_record(ev) ==
    DispatchRecord(ev, None, None, None, None, Some("no_engines_dispatched"))

NoReturn ==
    [kind |-> "none", reward |-> [num |-> 0, den |-> 1],
     terminated |-> FALSE, info |-> EmptyInfo]

\* a variant of the empty-queue return that does not report termination
empty_queue_return_running ==
    [kind |-> "return", reward |-> [num |-> 0, den |-> 1],
     terminated |-> FALSE, info |-> EmptyInfo]

\* return 0.0, True, {} (line 109)
empty_queue_return ==
    [kind |-> "return", reward |-> [num |-> 0, den |-> 1],
     terminated |-> TRUE, info |-> EmptyInfo]

\* a variant of the no-dispatch return that ends the episode
no_dispatch_return_terminated ==
    [kind |-> "return", reward |-> [num |-> -1000, den |-> 1],
     terminated |-> TRUE,
     info |-> [EmptyInfo EXCEPT !.keys = {"error"}, !.error = "no_engines_dispatched"]]

\* return -1000.0, False, {"error": "no_engines_dispatched"} (line 188)
no_dispatch_return ==
    [kind |-> "return", reward |-> [num |-> -1000, den |-> 1],
     terminated |-> FALSE,
     info |-> [EmptyInfo EXCEPT !.keys = {"error"}, !.error = "no_engines_dispatched"]]

\* a variant that keeps only the error record
log_error_only(history, ev) == <<error_record(ev)>>

\* self.dispatch_history.append(record) of the no-dispatch path (lines 178-187)
log_error(history, ev) == Append(history, error_record(ev))

\* a variant that sets the clock to the incident's timestamp
clock_after_dispatch_timestamp(clock, timestamp) == timestamp

\* self.time = max(self.time, event.timestamp) (line 192)
clock_after_dispatch(clock, timestamp) == Max(clock, timestamp)

\* a variant that looks at the queue only
terminated_after_queue_only(count, queue) == queue = <<>>

\* done = (self.step_count >= self.max_steps) or not self.pending_events
\* (line 193)
terminated_after(count, queue) == count >= max_steps \/ queue = <<>>

\* ids of the incidents of a sequence
ids_of(events) == [k \in DOMAIN events |-> events[k].id]

\* Simulator.reset(event_df); df is None or Some(table)
Reset(df) ==
    /\ time' = 0
    /\ step_count' = 0
    /\ response_times' = <<>>
    /\ finished_events' = <<>>
    /\ dispatch_history' = <<>>
    /\ engines' = init_engines
    /\ pending_events' = IF df # None THEN generate_events(df[1]) ELSE pending_events
    /\ ret' = NoReturn
    /\ last' = Called("reset", IF df # None THEN "table" ELSE "none", -1, 0, <<>>, 0)
    /\ trail' = [k \in DOMAIN fleet |-> <<"available">>]
    /\ advanced' = [k \in DOMAIN fleet |-> 0]
    /\ popped' = <<>>
    /\ lost' = <<>>
    /\ loaded' = ids_of(pending_events')
    /\ UNCHANGED <<cooldown_seconds, max_steps>>
    /\ UNCHANGED vehvars

\* Simulator.step(engine_ids), queue empty: lines 106-109
StepEmpty(engine_ids) ==
    /\ step_count < MaxCalls
    /\ pending_events = <<>>
    /\ step_count' = step_count + 1
    /\ ret' = empty_queue_return
    /\ last' = Called("step", "empty", -1, 0, <<>>, 0)
    /\ trail' = [k \in DOMAIN engines |-> <<engines[k].status>>]
    /\ advanced' = [k \in DOMAIN engines |-> 0]
    /\ UNCHANGED <<cooldown_seconds, max_steps, engines, pending_events, finished_events,
                   response_times, dispatch_history, time, popped, lost, loaded>>
    /\ UNCHANGED vehvars

\* Simulator.step(engine_ids), queue not empty, no vehicle dispatched:
\* lines 106-188
StepLost(engine_ids) ==
    /\ step_count < MaxCalls
    /\ pending_events # <<>>
    /\ ~ int_raises(pending_events[1])
    /\ LET r == step_dispatch(engine_ids)
       IN /\ ~ r.st.raised
          /\ r.st.used_engines = <<>>
          /\ step_count' = step_count + 1
          /\ time' = r.adv.time
          /\ engines' = r.st.engines
          /\ pending_events' = popleft(pending_events)
          /\ dispatch_history' = log_error(r.st.dispatch_history, r.event)
          /\ ret' = no_dispatch_return
          /\ last' = Called("step", "lost", r.event.id, r.event.timestamp,
                             r.ids, r.dispatch_count)
          /\ trail' = r.st.trail
          /\ advanced' = r.adv.advanced
          /\ popped' = Append(popped, r.event.timestamp)
          /\ lost' = Append(lost, r.event)
    /\ UNCHANGED <<cooldown_seconds, max_steps, finished_events, response_times, loaded>>
    /\ UNCHANGED vehvars

\* Simulator.step(engine_ids), queue not empty, at least one vehicle
\* dispatched: lines 106-175 and 190-202
StepDispatched(engine_ids) ==
    /\ step_count < MaxCalls
    /\ pending_events # <<>>
    /\ ~ int_raises(pending_events[1])
    /\ LET r == step_dispatch(engine_ids)
       IN /\ ~ r.st.raised
          /\ r.st.used_engines # <<>>
          /\ step_count' = step_count + 1
          /\ engines' = r.st.engines
          /\ pending_events' = popleft(pending_events)
          /\ dispatch_history' = r.st.dispatch_history
          /\ finished_events' = Append(finished_events, r.event)
          /\ response_times' = response_times \o r.st.response_times
          /\ time' = clock_after_dispatch(r.adv.time, r.event.timestamp)
          /\ ret' = [kind |-> "return",
                     reward |-> mean(r.st.rewards),
                     terminated |-> terminated_after(step_count + 1,
                                                    popleft(pending_events)),
                     info |-> [keys |-> {"event_id", "dispatched_engines",
                                         "min_response_time", "response_times"},
                               error |-> "", event_id |-> r.event.id,
                               dispatched_engines |-> r.st.used_engines,
                               min_response_time |-> MinOf(r.st.response_times),
                               response_times |-> r.st.response_times]]
          /\ last' = Called("step", "dispatched", r.event.id, r.event.timestamp,
                             r.ids, r.dispatch_count)
          /\ trail' = r.st.trail
          /\ advanced' = r.adv.advanced
          /\ popped' = Append(popped, r.event.timestamp)
    /\ UNCHANGED <<cooldown_seconds, max_steps, lost, loaded>>
    /\ UNCHANGED vehvars

\* what the caller sees when step ends in an exception
raise_IndexError ==
    [kind |-> "raise", reward |-> [num |-> 0, den |-> 1],
     terminated |-> FALSE, info |-> EmptyInfo]

\* Simulator.step(engine_ids), queue not empty, self.engines[engine_id]
\* raises IndexError (line 133): the counter, the clocks, the pop and the
\* assignments and records of the earlier ids stay as they are
StepRaise(engine_ids) ==
    /\ step_count < MaxCalls
    /\ pending_events # <<>>
    /\ ~ int_raises(pending_events[1])
    /\ LET r == step_dispatch(engine_ids)
       IN /\ r.st.raised
          /\ step_count' = step_count + 1
          /\ time' = r.adv.time
          /\ engines' = r.st.engines
          /\ pending_events' = popleft(pending_events)
          /\ dispatch_history' = r.st.dispatch_history
          /\ ret' = raise_IndexError
          /\ last' = Called("step", "raised", r.event.id, r.event.timestamp,
                             r.ids, r.dispatch_count)
          /\ trail' = r.st.trail
          /\ advanced' = r.adv.advanced
          /\ popped' = Append(popped, r.event.timestamp)
    /\ UNCHANGED <<cooldown_seconds, max_steps, finished_events, response_times,
                   lost, loaded>>
    /\ UNCHANGED vehvars

\* what the caller sees when step ends in the exception of int(...)
raise_ValueError ==
    [kind |-> "raise", reward |-> [num |-> 0, den |-> 1],
     terminated |-> FALSE, info |-> EmptyInfo]

\* Simulator.step(engine_ids), queue not empty, get_required_dispatch_count
\* raises (line 122): the counter was incremented, the clocks advanced and
\* the incident popped
StepRaiseCount(engine_ids) ==
    /\ step_count < MaxCalls
    /\ pending_events # <<>>
    /\ int_raises(pending_events[1])
    /\ LET head == pending_events[1]
           adv == advance_to(engines, time, head.timestamp)
       IN /\ step_count' = step_count + 1
          /\ time' = adv.time
          /\ engines' = adv.engines
          /\ pending_events' = popleft(pending_events)
          /\ ret' = raise_ValueError
          /\ last' = Called("step", "raised", head.id, head.timestamp, <<>>, 0)
          /\ trail' = adv.trail
          /\ advanced' = adv.advanced
          /\ popped' = Append(popped, head.timestamp)
    /\ UNCHANGED <<cooldown_seconds, max_steps, finished_events, response_times,
                   dispatch_history, lost, loaded>>
    /\ UNCHANGED vehvars

\* Simulator.step(engine_ids)
Step(engine_ids) ==
    \/ StepEmpty(engine_ids)
    \/ StepLost(engine_ids)
    \/ StepDispatched(engine_ids)

\* a call of Simulator.get_sorted_available_engines: it changes nothing
RankCall ==
    /\ ranked' = Some(get_sorted_available_engines(engines, pending_events))
    /\ UNCHANGED <<cooldown_seconds, engines, pending_events, finished_events,
                   response_times, dispatch_history, time, step_count, max_steps,
                   last_sorted_actions, ret, last, trail, advanced, popped, lost,
                   loaded, obs_dim, obs_engine_count, obs, env_done>>
    /\ UNCHANGED vehvars

(* ----------------------- get_observation (utils.py) -------------------- *)

\* config["obs_dim"] and config["obs_engine_count"] where the encoder is
\* not the subject
ConfiguredObsDim == 96
ConfiguredObsEngineCount == 10

\* the values the two are drawn from where it is
ObsDimChoices == {10, 90, 200}
ObsEngineCountChoices == {2, 10}

\* config["map_width"], config["map_height"], config["max_engines"]
map_width == 400000
map_height == 400000
max_engines == 40

\* a float as the fraction num / den it is computed from
Frac(num, den) == IF num = 0 THEN <<0, 1>> ELSE <<num, den>>
Zero == <<0, 1>>
One == <<1, 1>>

\* np.clip(num / den, 0.0, 1.0) for den > 0
clip01(num, den) ==
    IF num <= 0 THEN Zero ELSE IF num >= den THEN One ELSE Frac(num, den)

\* _one_hot(index, length)
one_hot(index, length) ==
    [i \in 1..length |-> IF 0 <= index /\ index < length /\ i = index + 1
                         THEN One ELSE Zero]

\* risk_map.get(risk_label, len(risk_map) - 1) with _DEFAULT_RISK_MAP
risk_map_size == 5
risk_index(risk_label) ==
    CASE risk_label = "false alarms" -> 0
      [] risk_label = "secondary fires that attract a 20 minute-response time" -> 1
      [] risk_label = "low risk" -> 2
      [] risk_label = "medium risk" -> 3
      [] risk_label = "high risk" -> 4
      [] OTHER -> risk_map_size - 1

\* lines 22-41: position, risk one-hot and waiting time of the head
\* incident, zeros for an empty queue
event_features(queue, clock) ==
    IF queue = <<>>
    THEN <<Zero, Zero>> \o [i \in 1..risk_map_size |-> Zero] \o <<Zero>>
    ELSE <<Frac(queue[1].graph_node[1], map_width),
           Frac(queue[1].graph_node[2], map_height)>>
         \o one_hot(risk_index(lower(queue[1].risk_level)), risk_map_size)
         \o <<clip01(clock - queue[1].timestamp, 300)>>

\* a variant that always shows the vehicle at the raw fleet index
slot_engine_raw(sorted_ids, es, idx) ==
    IF idx < Len(es) THEN Some(es[idx + 1]) ELSE None

\* lines 49-54: the vehicle shown in slot idx, or None
slot_engine(sorted_ids, es, idx) ==
    IF idx < Len(sorted_ids) THEN Some(es[sorted_ids[idx + 1] + 1])
    ELSE IF idx < Len(es) THEN Some(es[idx + 1])
    ELSE None

\* lines 68-73: the travel time of the vehicle to the head incident, 3600
\* when the lookup fails or there is no incident
observed_travel_time(queue, e) ==
    IF queue = <<>> THEN 3600
    ELSE IF <<queue[1].incident_index, station_mapping[e.id + 1]>>
               \in DOMAIN event_station_times
         THEN event_station_times[<<queue[1].incident_index,
                                    station_mapping[e.id + 1]>>]
         ELSE 3600

\* lines 56-81: the 8 values of slot idx
engine_features(slot, idx, queue) ==
    IF slot = None THEN [i \in 1..8 |-> Zero]
    ELSE LET eng == slot[1]
             status == one_hot(CASE eng.status = "available" -> 0
                                 [] eng.status = "driving" -> 1
                                 [] eng.status = "cooling" -> 2
                                 [] OTHER -> 0, 3)
             dist == Frac(Min(observed_travel_time(queue, eng), 3600), 3600)
             rank_norm == Frac(idx, obs_engine_count)
             usage == clip01(eng.dispatch_count, 10)
             remain == IF eng.status # "available"
                       THEN clip01(eng.remaining_time, 600) ELSE Zero
         IN status \o <<dist, rank_norm, usage, remain, Frac(eng.id, max_engines)>>

\* the loop of lines 48-81 from slot idx on
RECURSIVE engine_slots(_, _, _, _)
engine_slots(sorted_ids, es, queue, idx) ==
    IF idx >= obs_engine_count THEN <<>>
    ELSE engine_features(slot_engine(sorted_ids, es, idx), idx, queue)
         \o engine_slots(sorted_ids, es, queue, idx + 1)

\* lines 19-86: the encoding before it is cut or filled
raw_observation(es, queue, clock, count) ==
    event_features(queue, clock)
    \o engine_slots(get_sorted_available_engines(es, queue), es, queue, 0)
    \o <<Frac(clock % 86400, 86400), Frac(count, max_steps)>>

\* a variant that cuts but never fills
pad_or_trim_cut_only(raw, dim) ==
    IF Len(raw) > dim THEN SubSeq(raw, 1, dim) ELSE raw

\* lines 89-93
pad_or_trim(raw, dim) ==
    IF Len(raw) > dim THEN SubSeq(raw, 1, dim)
    ELSE raw \o [i \in 1..(dim - Len(raw)) |-> Zero]

\* get_observation(sim) on a simulator with this fleet, queue, clock and
\* step counter
get_observation(es, queue, clock, count) ==
    pad_or_trim(raw_observation(es, queue, clock, count), obs_dim)

\* a variant that takes the head incident off the queue to read it
ObsCall_popping ==
    /\ obs' = Some(get_observation(engines, pending_events, time, step_count))
    /\ pending_events' = IF pending_events = <<>> THEN <<>>
                         ELSE popleft(pending_events)
    /\ UNCHANGED <<cooldown_seconds, engines, finished_events,
                   response_times, dispatch_history, time, step_count, max_steps,
                   last_sorted_actions, ret, last, trail, advanced, popped, lost,
                   loaded, ranked, obs_dim, obs_engine_count, env_done>>
    /\ UNCHANGED vehvars

\* a call of get_observation: it changes nothing
ObsCall ==
    /\ obs' = Some(get_observation(engines, pending_events, time, step_count))
    /\ UNCHANGED <<cooldown_seconds, engines, pending_events, finished_events,
                   response_times, dispatch_history, time, step_count, max_steps,
                   last_sorted_actions, ret, last, trail, advanced, popped, lost,
                   loaded, ranked, obs_dim, obs_engine_count, env_done>>
    /\ UNCHANGED vehvars

(* ----------------------- FireDispatchEnv (environment.py) -------------- *)

\* config["max_dispatch_per_event"]: the length of an action
max_dispatch_per_event == 2

\* the action space MultiDiscrete([num_engines] * max_dispatch_per_event):
\* ranks into the sorted list of free vehicles
ActionIdxs == SeqsUpTo(0..(Len(fleet) - 1), max_dispatch_per_event, max_dispatch_per_event)

\* lines 85-101 of FireDispatchEnv.step with fallback_on_invalid = True:
\* the ranks cut to the required count and turned into vehicle ids, a rank
\* beyond the list standing for the first vehicle of the list
selected_engines(action_idxs, sorted_actions, dispatch_count) ==
    LET idxs == slice_to(action_idxs, dispatch_count)
    IN [k \in DOMAIN idxs |->
           IF idxs[k] < Len(sorted_actions) THEN sorted_actions[idxs[k] + 1]
           ELSE sorted_actions[1]]

\* truncated = self.sim.step_count >= self.sim.max_steps (lines 62, 109)
truncated(count, budget) == count >= budget

\* a variant that also ends the episode when the Simulator reports the end
done_flag_or_terminated(is_truncated, is_terminated) ==
    is_truncated \/ is_terminated

\* done = truncated (lines 63, 110): the Simulator's terminated flag goes
\* into info only
done_flag(is_truncated, is_terminated) == is_truncated

\* FireDispatchEnv.get_sorted_available_actions
get_sorted_available_actions ==
    IF pending_events = <<>> THEN <<>>
    ELSE get_sorted_available_engines(engines, pending_events)

\* FireDispatchEnv.reset: the Simulator is reset without a table, then the
\* ranking is taken
EnvReset ==
    /\ Reset(None)
    /\ last_sorted_actions' = get_sorted_available_engines(engines', pending_events')
    /\ obs' = Some(get_observation(engines', pending_events', time', step_count'))
    /\ env_done' = None
    /\ UNCHANGED <<ranked, obs_dim, obs_engine_count>>

\* FireDispatchEnv.step(action_idxs): the ranking is taken first, on the
\* state the previous step left; with an empty ranking the observation is
\* encoded and then the Simulator steps on an empty selection (lines
\* 57-60), otherwise it steps on the vehicles the ranks name and the
\* observation is encoded afterwards (lines 103-108)
EnvStep(action_idxs) ==
    LET sorted_actions == get_sorted_available_actions
    IN /\ last_sorted_actions' = sorted_actions
       /\ UNCHANGED <<ranked, obs_dim, obs_engine_count>>
       /\ IF sorted_actions = <<>>
          THEN /\ obs' = Some(get_observation(engines, pending_events, time,
                                              step_count))
               /\ Step(<<>>)
          ELSE /\ Step(selected_engines(action_idxs, sorted_actions,
                                        get_required_dispatch_count(pending_events[1])))
               /\ obs' = Some(get_observation(engines', pending_events', time',
                                              step_count'))
       /\ env_done' = Some(done_flag(truncated(step_count', max_steps),
                                     ret'.terminated))

\* the state after Simulator(config, event_df=None): reset ran once on an
\* empty queue; max_steps is left to the specification
InitSim ==
    /\ cooldown_seconds \in CooldownChoices
    /\ engines = init_engines
    /\ pending_events = <<>>
    /\ finished_events = <<>>
    /\ response_times = <<>>
    /\ dispatch_history = <<>>
    /\ time = 0
    /\ step_count = 0
    /\ last_sorted_actions = <<>>
    /\ obs_dim = ConfiguredObsDim
    /\ obs_engine_count = ConfiguredObsEngineCount
    /\ obs = None
    /\ env_done = None
    /\ ranked = None
    /\ ret = NoReturn
    /\ last = Called("init", "none", -1, 0, <<>>, 0)
    /\ trail = [k \in DOMAIN fleet |-> <<"available">>]
    /\ advanced = [k \in DOMAIN fleet |-> 0]
    /\ popped = <<>>
    /\ lost = <<>>
    /\ loaded = <<>>

\* the values reset may be given for event_df
ResetArguments == {None} \cup {Some(t) : t \in EventTables}

Next ==
    \/ \E df \in ResetArguments : Reset(df) /\ UNCHANGED envvars
    \/ \E ids \in Selections : StepEmpty(ids) /\ UNCHANGED envvars
    \/ \E ids \in Selections : StepLost(ids) /\ UNCHANGED envvars
    \/ \E ids \in Selections : StepDispatched(ids) /\ UNCHANGED envvars

(* ================= the free-standing vehicle: SpecEngine =============== *)

\* location of the incident a free-standing vehicle is assigned to
EventNode == <<5, 5>>
\* home location of the free-standing vehicle
HomeNode == <<1, 1>>

NoCall == [op |-> "none", seconds |-> 0]

InitVeh ==
    /\ veh = FireEngine(0, HomeNode, cooldown_seconds)
    /\ vcall = NoCall
    /\ vbefore = veh
    /\ vtrail = <<"available">>
    /\ asg = None
    /\ base = veh
    /\ run = 0

\* veh.assign_to_event(EventNode, d, r, o), in any status
VehAssign(d, r, o) ==
    /\ veh.dispatch_count < MaxAssign
    /\ veh' = assign_to_event(veh, EventNode, d, r, o)
    /\ vcall' = [op |-> "assign", seconds |-> 0]
    /\ vbefore' = veh
    /\ vtrail' = <<veh.status, veh'.status>>
    /\ asg' = Some([d |-> d, r |-> r, o |-> o])
    /\ base' = veh'
    /\ run' = 0
    /\ UNCHANGED simvars

\* veh.update(delta)
VehUpdate(delta) ==
    /\ run + delta <= MaxElapsed
    /\ veh' = update(veh, delta)
    /\ vcall' = [op |-> "update", seconds |-> delta]
    /\ vbefore' = veh
    /\ vtrail' = update_run(veh, delta, <<veh.status>>).path
    /\ run' = run + delta
    /\ UNCHANGED <<asg, base>>
    /\ UNCHANGED simvars

\* veh.reset()
VehReset ==
    /\ veh' = reset(veh)
    /\ vcall' = [op |-> "reset", seconds |-> 0]
    /\ vbefore' = veh
    /\ vtrail' = <<veh.status, veh'.status>>
    /\ asg' = None
    /\ base' = veh'
    /\ run' = 0
    /\ UNCHANGED simvars

NextEngine ==
    \/ \E d \in 0..MaxDur, r \in 0..MaxDur, o \in 0..MaxDur : VehAssign(d, r, o)
    \/ \E delta \in 0..MaxDelta : VehUpdate(delta)
    \/ VehReset


(* ======================= claims: the vehicle ========================== *)

\* r + 2d + o + c of the assignment in force
BusyTotal == asg[1].r + 2 * asg[1].d + asg[1].o + cooldown_seconds

\* C1: a vehicle assigned with driving time d, reaction time r, on-scene
\* time o and cooldown c is not Available while the deltas of the update
\* calls since the assignment sum to less than r + 2d + o + c, and is
\* Available once they sum to r + 2d + o + c or more.
C1_UnavailableExactlyTotal ==
    asg # None =>
        /\ (run < BusyTotal => veh.status # "available")
        /\ (run >= BusyTotal => veh.status = "available")

\* C2: after any sequence of assign_to_event, update and reset calls,
\* remaining_time = 0 exactly when the status is available.
C2_RemainingZeroIffAvailable ==
    (veh.remaining_time = 0) <=> (veh.status = "available")

\* C4: update is additive: the vehicle after any run of update calls is
\* the vehicle a single update by the sum of their deltas gives, and two
\* further updates a, b give what one update a + b gives.
C4_UpdateAdditive ==
    /\ veh = update(base, run)
    /\ \A a \in 0..MaxDelta, b \in 0..MaxDelta :
          update(update(veh, a), b) = update(veh, a + b)

\* C4 witness: a driving vehicle was carried to available by at least two
\* update calls with positive deltas
C4_Witness ==
    /\ vcall.op = "update" /\ vcall.seconds > 0 /\ run > vcall.seconds
    /\ base.status = "driving" /\ base.remaining_time > 0 /\ cooldown_seconds > 0
    /\ vbefore.status # "available"
    /\ veh.status = "available"

\* what C5 says update(delta) makes of a vehicle with status st and
\* remaining time R: the status and the remaining time
C5_Expected(st, R, c, delta) ==
    IF st = "driving"
    THEN IF delta < R THEN [status |-> "driving", remaining_time |-> R - delta]
         ELSE IF delta < R + c
         THEN [status |-> "cooling", remaining_time |-> R + c - delta]
         ELSE [status |-> "available", remaining_time |-> 0]
    ELSE IF delta < R THEN [status |-> "cooling", remaining_time |-> R - delta]
         ELSE [status |-> "available", remaining_time |-> 0]

\* C5: one update(delta) carries a vehicle across several transitions:
\* from Driving with remaining R it ends Driving with R - delta when
\* delta < R, Cooling with R + c - delta when R <= delta < R + c, Available
\* with remaining 0 at its home node when delta >= R + c; from Cooling with
\* remaining R it ends Cooling with R - delta when delta < R, else Available.
C5_SingleUpdateOutcome ==
    (vcall.op = "update" /\ vbefore.status \in {"driving", "cooling"}) =>
        LET exp == C5_Expected(vbefore.status, vbefore.remaining_time,
                               cooldown_seconds, vcall.seconds)
        IN /\ veh.status = exp.status
           /\ veh.remaining_time = exp.remaining_time
           /\ (exp.status = "available" => veh.current_node = veh.home_node)


(* ======================= claims: the Simulator ======================== *)

\* the status changes of the vehicle state machine
AllowedEdges ==
    { <<"available", "driving">>, <<"driving", "cooling">>, <<"cooling", "available">> }

C6_PoppedInTimestampOrder ==
    \A i, j \in DOMAIN popped : i < j => popped[i] <= popped[j]

\* C6 witness: two incidents with different timestamps were popped
C6_Witness ==
    /\ Len(popped) >= 2
    /\ popped[1] < popped[2]

\* the elements of a sequence
Range(f) == {f[k] : k \in DOMAIN f}

\* C7: every incident loaded by the last reset is in exactly one of the
\* pending queue, the finished list and the lost incidents, so the three
\* lengths add up to the number of incidents loaded.
C7_EachIncidentInOnePlace ==
    LET p == ids_of(pending_events)
        f == ids_of(finished_events)
    IN /\ Len(p) + Len(f) + Len(lost) = Len(loaded)
       /\ Range(p) \cup Range(f) \cup Range(ids_of(lost)) = Range(loaded)
       /\ Cardinality(Range(loaded)) = Len(loaded)

\* C7 witness: of two incidents loaded, one is finished and one is lost
C7_Witness ==
    /\ Len(loaded) = 2
    /\ Len(finished_events) = 1
    /\ Len(lost) = 1

\* no vehicle was assigned by the step just taken
NoneDispatched ==
    \A k \in DOMAIN engines : engines'[k].dispatch_count = engines[k].dispatch_count

\* C8: a step on a non-empty queue that dispatches no vehicle appends one
\* record with error = no_engines_dispatched and engine_id, station and
\* response_time null, returns (-1000.0, False, {error}), and removes the
\* head incident from the queue without adding it to finished_events.
C8_NoDispatchLosesIncident ==
    [][(last'.op = "step" /\ pending_events # <<>> /\ NoneDispatched) =>
          LET head == pending_events[1]
              rec == dispatch_history'[Len(dispatch_history')]
          IN /\ Len(dispatch_history') = Len(dispatch_history) + 1
             /\ SubSeq(dispatch_history', 1, Len(dispatch_history)) = dispatch_history
             /\ rec.error = Some("no_engines_dispatched")
             /\ rec.engine_id = None /\ rec.station = None /\ rec.response_time = None
             /\ rec.event_id = head.id
             /\ ret'.kind = "return"
             /\ ret'.reward = [num |-> -1000, den |-> 1]
             /\ ret'.terminated = FALSE
             /\ ret'.info.keys = {"error"}
             /\ ret'.info.error = "no_engines_dispatched"
             /\ pending_events' = Tail(pending_events)
             /\ finished_events' = finished_events
             /\ head.id \notin Range(ids_of(pending_events'))
             /\ head.id \notin Range(ids_of(finished_events'))]_vars

\* C8 witness: a step lost an incident while a vehicle of the fleet was busy
C8_Witness ==
    /\ last.op = "step" /\ last.branch = "lost"
    /\ ret.info.error = "no_engines_dispatched"
    /\ \E k \in DOMAIN engines : engines[k].status # "available"

\* C9: a step on an empty queue returns (0.0, True, {}) and changes
\* nothing but the step counter, which grows by one.
C9_EmptyQueueStep ==
    [][(last'.op = "step" /\ pending_events = <<>>) =>
          /\ ret'.kind = "return"
          /\ ret'.reward = [num |-> 0, den |-> 1]
          /\ ret'.terminated = TRUE
          /\ ret'.info.keys = {}
          /\ step_count' = step_count + 1
          /\ UNCHANGED <<time, engines, pending_events, finished_events,
                         response_times, dispatch_history>>]_vars

\* C9 witness: a step ran on an empty queue while a vehicle was busy and
\* the clock had moved
C9_Witness ==
    /\ last.op = "step" /\ last.branch = "empty"
    /\ time > 0
    /\ \E k \in DOMAIN engines : engines[k].status # "available"

\* C10: a step on a non-empty queue whose clock is behind the head
\* incident's timestamp hands every vehicle exactly timestamp - clock
\* seconds and sets the clock to the timestamp, also when the incident is
\* lost; a vehicle the step does not assign ends as update leaves it.
C10_AdvanceEveryVehicle ==
    [][(last'.op = "step" /\ pending_events # <<>>
          /\ time < pending_events[1].timestamp) =>
          LET delta == pending_events[1].timestamp - time
          IN /\ time' = pending_events[1].timestamp
             /\ \A k \in DOMAIN engines :
                   /\ advanced'[k] = delta
                   /\ engines'[k].dispatch_count = engines[k].dispatch_count
                         => engines'[k] = update(engines[k], delta)]_vars

\* C10 witness: a step that lost its incident advanced a busy vehicle
C10_Witness ==
    /\ last.op = "step" /\ last.branch = "lost"
    /\ \E k \in DOMAIN engines :
          /\ advanced[k] > 0
          /\ Len(trail[k]) >= 2

(* ----------------------- the selection of a step ----------------------- *)

\* the step just taken popped an incident
StepOnQueue == last.op = "step" /\ last.branch \in {"lost", "dispatched"}

\* vehicle k (an index of engines) went from Available to Driving in the
\* step just taken: assign_to_event was called on it while it was free
AssignedInStep(k) ==
    /\ Len(trail[k]) >= 2
    /\ trail[k][Len(trail[k])] = "driving"
    /\ trail[k][Len(trail[k]) - 1] = "available"

\* vehicle k was Available once the clocks had been advanced
AvailableAfterAdvance(k) ==
    trail[k][Len(trail[k])] = "available" \/ AssignedInStep(k)

\* the ids of ids[i..] that are Available when the loop reaches them: free
\* after the advance and not taken by an earlier position of ids
RECURSIVE available_when_reached(_, _)
available_when_reached(ids, i) ==
    IF i > Len(ids) THEN <<>>
    ELSE (IF /\ AvailableAfterAdvance(ids[i] + 1)
             /\ \A j \in 1..(i - 1) : ids[j] # ids[i]
          THEN <<ids[i]>> ELSE <<>>) \o available_when_reached(ids, i + 1)

C12_NoSubstitution ==
    StepOnQueue =>
        LET expected == available_when_reached(last.considered, 1)
        IN /\ ret.kind = "return"
           /\ ret.info.dispatched_engines = expected
           /\ \A k \in DOMAIN engines :
                 AssignedInStep(k) <=> (k - 1) \in Range(expected)

\* a step skipped a busy selected vehicle and assigned another one
C12_Witness ==
    /\ last.op = "step" /\ last.branch = "dispatched"
    /\ \E i \in DOMAIN last.considered :
          /\ ~ AvailableAfterAdvance(last.considered[i] + 1)
          /\ \E j \in DOMAIN last.considered :
                j > i /\ AssignedInStep(last.considered[j] + 1)

(* ----------------------- the end of a dispatching step ----------------- *)

\* C13: when a step dispatches at least one vehicle, the incident is
\* appended to finished_events, the step's response times are appended to
\* the response-time history, the clock becomes max(clock, incident
\* timestamp), and the returned terminated flag is true exactly when
\* step_count >= max_steps or the queue is empty after the pop.
C13_DispatchedStepEnd ==
    [][(last'.op = "step" /\ last'.branch = "dispatched") =>
          LET head == pending_events[1]
              done == finished_events'[Len(finished_events')]
          IN /\ Len(finished_events') = Len(finished_events) + 1
             /\ SubSeq(finished_events', 1, Len(finished_events)) = finished_events
             /\ done.id = head.id /\ done.assigned
             /\ response_times' = response_times \o ret'.info.response_times
             /\ ret'.info.response_times # <<>>
             /\ time' = Max(time, head.timestamp)
             /\ ret'.terminated <=>
                   (step_count' >= max_steps \/ pending_events' = <<>>)]_vars

\* a dispatching step used up the step budget with incidents still queued
C13_Witness ==
    /\ last.op = "step" /\ last.branch = "dispatched"
    /\ ret.terminated
    /\ pending_events # <<>>
    /\ step_count >= max_steps

(* ----------------------- the availability ranking ---------------------- *)

\* the travel-time lookup of the head incident succeeds for vehicle id
LookupSucceeds(id) ==
    <<pending_events[1].incident_index, station_mapping[id + 1]>>
        \in DOMAIN event_station_times

\* the travel time of vehicle id to the head incident
TravelTime(id) ==
    event_station_times[<<pending_events[1].incident_index, station_mapping[id + 1]>>]

\* vehicle a is ranked before vehicle b by (travel time, dispatch count,
\* id), a failed lookup counting as a travel time beyond every other
RankedBefore(a, b) ==
    LET fa == ~ LookupSucceeds(a)
        fb == ~ LookupSucceeds(b)
        same == (fa /\ fb) \/ (~ fa /\ ~ fb /\ TravelTime(a) = TravelTime(b))
        ca == engines[a + 1].dispatch_count
        cb == engines[b + 1].dispatch_count
    IN \/ ~ fa /\ fb
       \/ ~ fa /\ ~ fb /\ TravelTime(a) < TravelTime(b)
       \/ same /\ ca < cb
       \/ same /\ ca = cb /\ a < b

\* C17: for the head incident the ranking lists each Available vehicle
\* exactly once and no unavailable one, ascending by (travel time,
\* dispatch count, id); it is empty when no vehicle is Available, and it
\* is the value the state determines.
C17_RankingOrder ==
    (ranked # None /\ pending_events # <<>>) =>
        LET r == ranked[1]
            free == {id \in EngineIds : is_available(engines[id + 1])}
        IN /\ Range(r) = free
           /\ Len(r) = Cardinality(free)
           /\ \A i, j \in DOMAIN r : i < j => RankedBefore(r[i], r[j])
           /\ free = {} => r = <<>>
           /\ r = get_sorted_available_engines(engines, pending_events)

\* two free vehicles with equal travel time: the one with fewer earlier
\* dispatches is listed first although its id is higher
C17_Witness ==
    /\ ranked # None /\ pending_events # <<>>
    /\ \E i, j \in DOMAIN ranked[1] :
          /\ i < j
          /\ ranked[1][i] > ranked[1][j]
          /\ LookupSucceeds(ranked[1][i]) /\ LookupSucceeds(ranked[1][j])
          /\ TravelTime(ranked[1][i]) = TravelTime(ranked[1][j])
          /\ engines[ranked[1][i] + 1].dispatch_count
                < engines[ranked[1][j] + 1].dispatch_count

\* C20: a missing travel-time entry never blocks a dispatch or a ranking:
\* an Available selected vehicle whose lookup fails is still assigned, with
\* 3600 used for its busy time, its record and its reward; in the ranking
\* such a vehicle is still listed, after every vehicle whose lookup
\* succeeds.
C20_MissingEntryFallsBack ==
    /\ StepOnQueue =>
          LET sent == ret.info.dispatched_engines
              old == Len(dispatch_history) - Len(sent)
              failed(id) == <<dispatch_history[Len(dispatch_history)].incident_index,
                              station_mapping[id + 1]>> \notin DOMAIN event_station_times
          IN /\ \A i \in DOMAIN last.considered :
                   (failed(last.considered[i])
                       /\ AvailableAfterAdvance(last.considered[i] + 1))
                   => AssignedInStep(last.considered[i] + 1)
             /\ \A i \in DOMAIN sent :
                   failed(sent[i]) =>
                      LET ev == finished_events[Len(finished_events)]
                      IN /\ dispatch_history[old + i].response_time = Some(3600)
                         /\ ret.info.response_times[i] = 3600
                         /\ engines[sent[i] + 1].remaining_time =
                               ev.reaction_seconds + 3600 + ev.on_scene_seconds + 3600
             /\ (sent # <<>> /\ \A i \in DOMAIN sent : failed(sent[i])) =>
                   ret.reward.num = (0 - 3600 * 3600) * ret.reward.den
    /\ (ranked # None /\ pending_events # <<>>) =>
          LET r == ranked[1]
          IN /\ \A id \in EngineIds :
                   (is_available(engines[id + 1]) /\ ~ LookupSucceeds(id))
                   => id \in Range(r)
             /\ \A i, j \in DOMAIN r :
                   (~ LookupSucceeds(r[i]) /\ LookupSucceeds(r[j])) => j < i

\* a ranking lists a vehicle without a travel-time entry, behind one whose
\* lookup succeeded and in front of which its dispatch count and id would
\* have put it
C20_Witness ==
    /\ ranked # None /\ pending_events # <<>>
    /\ \E i, j \in DOMAIN ranked[1] :
          /\ i < j
          /\ LookupSucceeds(ranked[1][i])
          /\ ~ LookupSucceeds(ranked[1][j])
          /\ engines[ranked[1][j] + 1].dispatch_count
                < engines[ranked[1][i] + 1].dispatch_count

\* C18: the ranking from which vehicles are chosen for an incident is
\* taken after the vehicle clocks have been advanced to the incident's
\* timestamp: a vehicle whose busy and cooldown time ends at or before
\* that timestamp is offered for the incident, and the incident is lost
\* for lack of vehicles only if no vehicle is Available at its timestamp.
C18_RankingAfterAdvance ==
    StepOnQueue =>
        /\ \A k \in DOMAIN engines :
              AvailableAfterAdvance(k) => (k - 1) \in Range(last_sorted_actions)
        /\ last.branch = "lost" => \A k \in DOMAIN engines : ~ AvailableAfterAdvance(k)

\* C19: step never ends abruptly: for every state and every list of
\* vehicle ids, also ids that name no vehicle of the fleet and repeated
\* ids, it returns a (reward, terminated, info) triple and reports failure
\* only through the reward and info["error"].
C19_StepAlwaysReturns ==
    last.op = "step" =>
        /\ ret.kind = "return"
        /\ last.branch = "lost" <=> "error" \in ret.info.keys

(* ----------------------- clock and dispatch log ------------------------ *)

\* C14: between two resets the simulation clock never decreases across
\* step calls, whichever path each step takes.
C14_ClockNeverDecreases ==
    [][last'.op = "step" => time' >= time]_vars

\* a step popped an incident older than the clock and the clock stayed
C14_Witness ==
    /\ StepOnQueue
    /\ time > last.timestamp

\* C15: the dispatch log is append-only across step calls: the records
\* already in it keep their position and content, and a step on a
\* non-empty queue appends either one record per vehicle dispatched or
\* exactly one error record.
C15_LogAppendOnly ==
    [][last'.op = "step" =>
          LET old == Len(dispatch_history)
              new == Len(dispatch_history')
              sent == ret'.info.dispatched_engines
          IN /\ new >= old
             /\ SubSeq(dispatch_history', 1, old) = dispatch_history
             /\ last'.branch = "empty" => new = old
             /\ last'.branch = "lost" =>
                   /\ new = old + 1
                   /\ dispatch_history'[new].error = Some("no_engines_dispatched")
             /\ last'.branch = "dispatched" =>
                   /\ new = old + Len(sent)
                   /\ \A i \in 1..Len(sent) :
                         /\ dispatch_history'[old + i].engine_id = Some(sent[i])
                         /\ dispatch_history'[old + i].error = None]_vars

\* a log that already held a record grew by an error record, and a log
\* grew by two records in one step
C15_Witness ==
    /\ last.op = "step" /\ last.branch = "lost"
    /\ Len(dispatch_history) = 2
    /\ dispatch_history[1].error = None
    /\ dispatch_history[2].error = Some("no_engines_dispatched")

\* C16: in every step that dispatches at least one vehicle, the first
\* record the step appends carries dispatched_vehicle_count (the required
\* count) and no later record of the step carries it, also when the first
\* selected id was skipped as unavailable.
C16_FirstRecordCarriesCount ==
    (last.op = "step" /\ last.branch = "dispatched") =>
        LET n == Len(ret.info.dispatched_engines)
            first == Len(dispatch_history) - n + 1
        IN /\ dispatch_history[first].dispatched_vehicle_count = Some(last.count)
           /\ \A j \in (first + 1)..Len(dispatch_history) :
                 dispatch_history[j].dispatched_vehicle_count = None

(* ----------------------- reset ------------------------------------------ *)

StepDispatchedLast == last.op = "step" /\ last.branch = "dispatched"

\* the travel time the table gives vehicle id for the incident of index
\* incident_index, 3600 without an entry
TableSeconds(incident_index, id) ==
    IF <<incident_index, station_mapping[id + 1]>> \in DOMAIN event_station_times
    THEN event_station_times[<<incident_index, station_mapping[id + 1]>>]
    ELSE 3600

\* C22: when one step dispatches several vehicles, the incident keeps the
\* values of the last mark_responded: responder_id, response_time and
\* true_driving_seconds are those of the last vehicle dispatched in the
\* step, while the log holds one record per vehicle.
C22_LastResponderSurvives ==
    StepDispatchedLast =>
        LET sent == ret.info.dispatched_engines
            n == Len(sent)
            old == Len(dispatch_history) - n
            ev == finished_events[Len(finished_events)]
        IN /\ ev.assigned
           /\ ev.responder_id = Some(sent[n])
           /\ ev.response_time = Some(TableSeconds(ev.incident_index, sent[n]))
           /\ ev.true_driving_seconds = TableSeconds(ev.incident_index, sent[n])
           /\ \A i \in 1..n :
                 /\ dispatch_history[old + i].event_id = ev.id
                 /\ dispatch_history[old + i].engine_id = Some(sent[i])
                 /\ dispatch_history[old + i].response_time
                       = Some(TableSeconds(ev.incident_index, sent[i]))

\* two vehicles with different travel times were dispatched in one step
C22_Witness ==
    /\ StepDispatchedLast
    /\ Len(ret.info.dispatched_engines) = 2
    /\ ret.info.response_times[1] # ret.info.response_times[2]

\* C26: the reward of a step that dispatches vehicles with travel times
\* t_1..t_k is the mean of -(t_i^2) over exactly the dispatched vehicles,
\* info["min_response_time"] is the smallest t_i and
\* info["response_times"] lists the t_i in dispatch order; every reward
\* returned by step is <= 0.
C26_RewardIsMeanOfSquares ==
    last.op = "step" =>
        /\ ret.reward.den > 0 /\ ret.reward.num <= 0
        /\ StepDispatchedLast =>
              LET sent == ret.info.dispatched_engines
                  inc == finished_events[Len(finished_events)].incident_index
                  t == [i \in DOMAIN sent |-> TableSeconds(inc, sent[i])]
                  squares == [i \in DOMAIN sent |-> 0 - t[i] * t[i]]
              IN /\ ret.reward.num * Len(sent) = Sum(squares) * ret.reward.den
                 /\ ret.info.response_times = t
                 /\ \A i \in DOMAIN sent : ret.info.min_response_time <= t[i]
                 /\ \E i \in DOMAIN sent : ret.info.min_response_time = t[i]

\* a step skipped one of two selected vehicles and its reward is that of
\* the other alone
C26_Witness ==
    /\ StepDispatchedLast
    /\ Len(last.considered) = 2
    /\ Len(ret.info.dispatched_engines) = 1
    /\ last.considered[1] # last.considered[2]
    /\ ret.reward.num < 0

\* C28: step calls assign_to_event only on a vehicle that is Available at
\* that moment: every status a vehicle is given by an assignment in a step
\* (a "driving" entry of its trail after the first) follows "available",
\* no vehicle is assigned twice within one step, and a Driving or Cooling
\* vehicle is never given a new assignment.
C28_AssignOnlyWhenAvailable ==
    last.op = "step" =>
        \A k \in DOMAIN engines :
            /\ \A i \in 2..Len(trail[k]) :
                  trail[k][i] = "driving" => trail[k][i - 1] = "available"
            /\ Cardinality({i \in 2..Len(trail[k]) : trail[k][i] = "driving"}) <= 1
            /\ Cardinality({i \in DOMAIN ret.info.dispatched_engines :
                               ret.info.dispatched_engines[i] = k - 1}) <= 1

\* a selection named the same free vehicle twice and the vehicle was
\* assigned once
C28_Witness ==
    /\ StepDispatchedLast
    /\ Len(last.considered) = 2
    /\ last.considered[1] = last.considered[2]
    /\ AssignedInStep(last.considered[1] + 1)

\* the labels that are one of the fixed high-risk labels once trimmed and
\* lower-cased
HighRiskSpellings ==
    {" High Risk ", "HIGH RISK",
     "Secondary Fires that attract a 20 minute-response time "}

\* C27: get_required_dispatch_count returns the explicit
\* dispatched_vehicle_count when the incident's data has one; otherwise 2
\* when the risk label, trimmed and lower-cased, is one of the fixed
\* high-risk labels; otherwise 1.
C27_RequiredCount ==
    [][(last'.op = "step" /\ pending_events # <<>>) =>
          LET head == pending_events[1]
              cell == head.dispatched_vehicle_count
          IN /\ ret'.kind = "return"
             /\ last'.count = IF cell # None /\ cell # NaN THEN cell[1]
                              ELSE IF head.risk_level \in HighRiskSpellings THEN 2
                              ELSE 1]_vars

(* ----------------------- termination and bookkeeping -------------------- *)

\* C29: every step on a non-empty queue shortens the queue by exactly one;
\* with n incidents after the reset the queue is empty after n steps, the
\* call n + 1 returns terminated = True at the latest, and every call on
\* the empty queue returns terminated = True.
C29_QueueDrainsAndTerminates ==
    last.op = "step" =>
        /\ Len(pending_events) = Max(0, Len(loaded) - step_count)
        /\ step_count > Len(loaded) => ret.terminated
        /\ last.branch = "empty" => ret.terminated
        /\ (StepDispatchedLast /\ pending_events = <<>>) => ret.terminated

\* both incidents of a run were lost, so only the third call reported the
\* end
C29_Witness ==
    /\ last.op = "step" /\ last.branch = "empty"
    /\ Len(loaded) = 2 /\ Len(lost) = 2
    /\ step_count = 3
    /\ ret.terminated

IsDispatchRecord(rec) == rec.error = None
IsErrorRecord(rec) == rec.error # None

\* C30: in every state reached by steps after a reset the sum of
\* dispatch_count over the fleet equals the number of records without an
\* error, which equals len(response_times); the number of error records
\* equals the number of lost incidents; and len(finished_events) equals
\* the number of steps that dispatched a vehicle (one incident each).
C30_BookkeepingAgrees ==
    LET sent == SelectSeq(dispatch_history, IsDispatchRecord)
        errors == SelectSeq(dispatch_history, IsErrorRecord)
    IN /\ Sum([k \in DOMAIN engines |-> engines[k].dispatch_count]) = Len(sent)
       /\ Len(sent) = Len(response_times)
       /\ Len(errors) = Len(lost)
       /\ Len(finished_events) = Cardinality({sent[i].event_id : i \in DOMAIN sent})

\* one incident was lost and the other answered by two vehicles
C30_Witness ==
    /\ last.op = "step"
    /\ Len(lost) = 1
    /\ Len(finished_events) = 1
    /\ Len(response_times) = 2

\* the raw encoding of the present state
RawNow == raw_observation(engines, pending_events, time, step_count)

\* C23: get_observation returns a vector of exactly obs_dim entries in every
\* state: the first obs_dim values of the raw encoding (10 + 8 N values)
\* when that is longer, the raw encoding followed by zeros when it is
\* shorter.
C23_ObservationLength ==
    obs # None =>
        /\ Len(obs[1]) = obs_dim
        /\ Len(RawNow) = 10 + 8 * obs_engine_count
        /\ \A i \in 1..obs_dim :
              obs[1][i] = IF i <= Len(RawNow) THEN RawNow[i] ELSE Zero

\* an encoding of 90 raw values was filled up to 200, with a waiting incident
C23_Witness ==
    /\ obs # None
    /\ obs_dim = 200
    /\ Len(RawNow) = 90
    /\ pending_events # <<>>
    /\ SubSeq(obs[1], 1, 90) = RawNow
    /\ \A i \in 91..200 : obs[1][i] = Zero

\* the 8 values of slot k in an encoding that was not cut
SlotBlock(k) == SubSeq(obs[1], 9 + 8 * k, 16 + 8 * k)

\* the availability ranking of the present state
RankingNow == get_sorted_available_engines(engines, pending_events)

\* C24: slot k shows the k-th vehicle of the availability ranking when the
\* ranking has more than k entries, otherwise the vehicle at fleet index k
\* when k is below the fleet size, otherwise 8 zeros; with an empty queue
\* every slot below the fleet size shows the vehicle at its index.
C24_SlotShowsVehicle ==
    (obs # None /\ obs_dim >= 10 + 8 * obs_engine_count) =>
        \A k \in 0..(obs_engine_count - 1) :
            /\ SlotBlock(k) =
                 IF k < Len(RankingNow)
                 THEN engine_features(Some(engines[RankingNow[k + 1] + 1]), k,
                                      pending_events)
                 ELSE IF k < Len(engines)
                 THEN engine_features(Some(engines[k + 1]), k, pending_events)
                 ELSE [i \in 1..8 |-> Zero]
            /\ (pending_events = <<>> /\ k < Len(engines)) =>
                 SlotBlock(k)[8] = Frac(engines[k + 1].id, max_engines)

\* ten slots over a fleet of three: the ranking has one or two entries and
\* starts with another vehicle than vehicle 0, so a ranked slot, a
\* raw-index slot and an empty slot are all shown
C24_Witness ==
    /\ obs # None
    /\ obs_dim = 90
    /\ obs_engine_count = 10
    /\ RankingNow # <<>>
    /\ Len(RankingNow) < Len(engines)
    /\ RankingNow[1] # 0
    /\ SlotBlock(0)[8] = Frac(RankingNow[1], max_engines)
    /\ SlotBlock(2)[8] = Frac(2, max_engines)
    /\ SlotBlock(3) = [i \in 1..8 |-> Zero]

\* C25: the observation returned by FireDispatchEnv.step is encoded from
\* the state its transition left, in every branch of step.
C25_ObservationAfterTransition ==
    (last.op = "step" /\ ret.kind = "return" /\ obs # None) =>
        obs[1] = get_observation(engines, pending_events, time, step_count)

\* every waiting incident was called at or after second 0
NonNegativeQueue ==
    \A i \in DOMAIN pending_events : pending_events[i].timestamp >= 0

\* the wait-time entry of the observation of the present state
WaitTimeNow == event_features(pending_events, time)[8]

\* C31: between steps, with non-negative timestamps, the clock never exceeds
\* the timestamp of the head incident, so the wait-time signal of the
\* observation is 0.
C31_ClockBehindHead ==
    (pending_events # <<>> /\ NonNegativeQueue) =>
        /\ time <= pending_events[1].timestamp
        /\ WaitTimeNow = Zero

\* a step moved the clock to a positive timestamp and the next incident,
\* called at that same second, is waiting
C31_Witness ==
    /\ last.op = "step"
    /\ popped # <<>>
    /\ pending_events # <<>>
    /\ NonNegativeQueue
    /\ time > 0
    /\ time = pending_events[1].timestamp
    /\ WaitTimeNow = Zero

\* the seconds update is tried with on a free vehicle
UpdateDeltas == 0..MaxDelta

\* C32: update(delta) leaves an Available vehicle completely unchanged for
\* every delta, and every Available vehicle is at its home node; hence a
\* vehicle the environment's ranking listed before Simulator.step advanced
\* the clocks is still Available when step reaches its id, unless the same
\* step already assigned it.
C32_AvailableUntouched ==
    /\ \A k \in DOMAIN engines :
          engines[k].status = "available" =>
              /\ engines[k].current_node = engines[k].home_node
              /\ \A delta \in UpdateDeltas : update(engines[k], delta) = engines[k]
    /\ (StepOnQueue /\ ret.kind = "return") =>
          \A i \in DOMAIN last_sorted_actions :
              LET k == last_sorted_actions[i] + 1
              IN /\ AvailableAfterAdvance(k)
                 /\ trail[k] \in {<<"available">>, <<"available", "driving">>}

\* the clocks were advanced by a positive time and a ranked vehicle that
\* the step did not assign is still free, while another vehicle came back
\* from an incident and is free at its home node
C32_Witness ==
    /\ StepOnQueue
    /\ \E i \in DOMAIN last_sorted_actions :
          LET k == last_sorted_actions[i] + 1
          IN /\ advanced[k] > 0
             /\ trail[k] = <<"available">>
             /\ engines[k].status = "available"
    /\ \E k \in DOMAIN engines :
          /\ engines[k].status = "available"
          /\ engines[k].dispatch_count > 0
          /\ engines[k].current_node = engines[k].home_node

\* the records of the dispatch log that name incident id
RecordsOf(id) ==
    {i \in DOMAIN dispatch_history : dispatch_history[i].event_id = id}

\* C33: each incident in finished_events has assigned = True and a
\* responder_id that appears in a record without error for that incident;
\* each lost incident has assigned = False, responder_id and response_time
\* null, and exactly one record, which carries the error marker.
C33_OutcomeMatchesLog ==
    /\ \A i \in DOMAIN finished_events :
          LET ev == finished_events[i]
          IN /\ ev.assigned
             /\ ev.responder_id # None
             /\ \E j \in RecordsOf(ev.id) :
                   /\ IsDispatchRecord(dispatch_history[j])
                   /\ dispatch_history[j].engine_id = ev.responder_id
    /\ \A i \in DOMAIN lost :
          LET ev == lost[i]
          IN /\ ~ ev.assigned
             /\ ev.responder_id = None
             /\ ev.response_time = None
             /\ Cardinality(RecordsOf(ev.id)) = 1
             /\ \A j \in RecordsOf(ev.id) :
                   dispatch_history[j].error = Some("no_engines_dispatched")

\* one incident was answered by two vehicles and the other was lost
C33_Witness ==
    /\ Len(finished_events) = 1
    /\ Cardinality(RecordsOf(finished_events[1].id)) = 2
    /\ Len(lost) = 1
    /\ Cardinality(RecordsOf(lost[1].id)) = 1

\* C34: FireDispatchEnv.step with fallback enabled reports done = True
\* exactly when the step counter has reached max_steps, never because the
\* queue ran empty or a dispatch failed; each call raises the counter by
\* one and reset sets it to 0, so an episode reports done after exactly
\* max_steps calls.
C34_DoneOnlyAtMaxSteps ==
    [][/\ last'.op = "step" =>
             /\ ret'.kind = "return"
             /\ step_count' = step_count + 1
             /\ env_done' = Some(step_count' >= max_steps)
       /\ last'.op = "reset" => step_count' = 0]_vars

\* a step emptied the queue or lost its incident before the budget was
\* used up, and the episode goes on
C34_Witness ==
    /\ last.op = "step"
    /\ step_count < max_steps
    /\ env_done = Some(FALSE)
    /\ \/ ret.terminated /\ last.branch = "dispatched"
       \/ last.branch = "lost"

\* the selections the steps between the read-only calls are given: none
\* or one vehicle of the fleet
ProbeSelections == {<<>>} \cup {<<id>> : id \in EngineIds}

\* what Simulator.step(ids) would do in the present state, up to the end
\* of its loop
step_outcome(ids) ==
    IF pending_events = <<>> THEN [empty |-> TRUE, count |-> step_count + 1]
    ELSE [empty |-> FALSE, count |-> step_count + 1, run |-> step_dispatch(ids)]

\* C35: get_observation and get_sorted_available_engines are read-only: a
\* call of either (a transition that is not a step: the step counter stays)
\* leaves the clock, the step counter, the queue, the finished list, the
\* dispatch log, the response times and every vehicle unchanged, so what a
\* later step does for a selection is the same before and after the call.
C35_ReadOnlyCalls ==
    [][step_count' = step_count =>
          /\ UNCHANGED <<time, pending_events, finished_events, dispatch_history,
                         response_times, engines, cooldown_seconds, max_steps>>
          /\ vars' # vars =>
                \A ids \in ProbeSelections : step_outcome(ids)' = step_outcome(ids)]_vars

\* after a step that left a vehicle busy and an incident waiting, the state
\* was both ranked and observed
C35_Witness ==
    /\ last.op = "step"
    /\ ranked # None
    /\ obs # None
    /\ pending_events # <<>>
    /\ \E k \in DOMAIN engines : engines[k].status # "available"
    /\ ranked[1] # <<>>

(* ======================= specifications =============================== *)

Init == InitSim /\ max_steps = ConfiguredMaxSteps /\ InitVeh

Spec == Init /\ [][Next]_vars

\* Simulator runs whose step budget is smaller than the incident tables
InitBudget ==
    /\ InitSim
    /\ cooldown_seconds = 1
    /\ max_steps \in BudgetChoices
    /\ InitVeh

SpecBudget == InitBudget /\ [][Next]_vars

\* largest number of earlier dispatches of a vehicle of a drawn fleet
MaxDispatched == 1

\* the states vehicle k can be in after n dispatches: free again, on a job
\* (one second of driving, one on scene), or cooling down after it
idle_after(k, n) ==
    [FireEngine(k - 1, fleet[k].home_node, cooldown_seconds)
        EXCEPT !.dispatch_count = n, !.total_driving_time = n]
VehicleStates(k) ==
    {idle_after(k, n) : n \in 0..MaxDispatched}
    \cup {assign_to_event(idle_after(k, n - 1), EventNode, 1, 0, 1) :
              n \in 1..MaxDispatched}
    \cup {transition(assign_to_event(idle_after(k, n - 1), EventNode, 1, 0, 1)) :
              n \in 1..MaxDispatched}
Fleets ==
    {f \in [DOMAIN fleet -> UNION {VehicleStates(k) : k \in DOMAIN fleet}] :
        \A k \in DOMAIN fleet : f[k] \in VehicleStates(k)}

\* the queues with at most one incident
Queues == {<<>>} \cup {generate_events(<<row>>) : row \in RowSet}

\* a Simulator in the middle of a run: some vehicles busy, some with
\* earlier dispatches, the next incident at the head of the queue
InitRank ==
    /\ cooldown_seconds = 1
    /\ max_steps = ConfiguredMaxSteps
    /\ engines \in Fleets
    /\ pending_events \in Queues
    /\ finished_events = <<>>
    /\ response_times = <<>>
    /\ dispatch_history = <<>>
    /\ time = 0
    /\ step_count = 0
    /\ last_sorted_actions = <<>>
    /\ obs_dim = ConfiguredObsDim
    /\ obs_engine_count = ConfiguredObsEngineCount
    /\ obs = None
    /\ env_done = None
    /\ ranked = None
    /\ ret = NoReturn
    /\ last = Called("init", "none", -1, 0, <<>>, 0)
    /\ trail = [k \in DOMAIN fleet |-> <<engines[k].status>>]
    /\ advanced = [k \in DOMAIN fleet |-> 0]
    /\ popped = <<>>
    /\ lost = <<>>
    /\ loaded = ids_of(pending_events)
    /\ InitVeh

\* the ranking is asked for, then the step is taken
NextRank ==
    \/ RankCall
    \/ \E ids \in Selections : StepEmpty(ids) /\ ranked' = None
                                  /\ UNCHANGED last_sorted_actions
                                  /\ UNCHANGED <<obsvars, env_done>>
    \/ \E ids \in Selections : StepLost(ids) /\ ranked' = None
                                  /\ UNCHANGED last_sorted_actions
                                  /\ UNCHANGED <<obsvars, env_done>>
    \/ \E ids \in Selections : StepDispatched(ids) /\ ranked' = None
                                  /\ UNCHANGED last_sorted_actions
                                  /\ UNCHANGED <<obsvars, env_done>>

SpecRank == InitRank /\ [][NextRank]_vars

\* the state after FireDispatchEnv(config, event_df): the Simulator was
\* built and reset with the table, no ranking was taken yet
InitEnv ==
    /\ cooldown_seconds \in CooldownChoices
    /\ max_steps = ConfiguredMaxSteps
    /\ engines = init_engines
    /\ pending_events \in {generate_events(t) : t \in EventTables}
    /\ finished_events = <<>>
    /\ response_times = <<>>
    /\ dispatch_history = <<>>
    /\ time = 0
    /\ step_count = 0
    /\ last_sorted_actions = <<>>
    /\ obs_dim = ConfiguredObsDim
    /\ obs_engine_count = ConfiguredObsEngineCount
    /\ obs = None
    /\ env_done = None
    /\ ranked = None
    /\ ret = NoReturn
    /\ last = Called("reset", "table", -1, 0, <<>>, 0)
    /\ trail = [k \in DOMAIN fleet |-> <<"available">>]
    /\ advanced = [k \in DOMAIN fleet |-> 0]
    /\ popped = <<>>
    /\ lost = <<>>
    /\ loaded = ids_of(pending_events)
    /\ InitVeh

NextEnv ==
    \/ EnvReset
    \/ \E action_idxs \in ActionIdxs : EnvStep(action_idxs)

SpecEnv == InitEnv /\ [][NextEnv]_vars

\* an environment whose step budget is smaller than the number of calls
InitEpisode ==
    /\ cooldown_seconds = 1
    /\ max_steps \in BudgetChoices
    /\ engines = init_engines
    /\ pending_events \in {generate_events(t) : t \in EventTables}
    /\ finished_events = <<>>
    /\ response_times = <<>>
    /\ dispatch_history = <<>>
    /\ time = 0
    /\ step_count = 0
    /\ last_sorted_actions = <<>>
    /\ obs_dim = ConfiguredObsDim
    /\ obs_engine_count = ConfiguredObsEngineCount
    /\ obs = None
    /\ env_done = None
    /\ ranked = None
    /\ ret = NoReturn
    /\ last = Called("reset", "table", -1, 0, <<>>, 0)
    /\ trail = [k \in DOMAIN fleet |-> <<"available">>]
    /\ advanced = [k \in DOMAIN fleet |-> 0]
    /\ popped = <<>>
    /\ lost = <<>>
    /\ loaded = ids_of(pending_events)
    /\ InitVeh

NextEpisode ==
    \/ EnvReset
    \/ \E action_idxs \in ActionIdxs : EnvStep(action_idxs)

SpecEpisode == InitEpisode /\ [][NextEpisode]_vars

\* the integers a caller may put in a selection: the ids of the fleet, the
\* negative indices Python accepts, and one integer beyond each end
IdChoices == {0 - Len(fleet) - 1, -1} \cup EngineIds \cup {Len(fleet)}
AnySelections == SeqsUpTo(IdChoices, 0, MaxSel)

InitAnyIds == InitSim /\ cooldown_seconds = 1 /\ max_steps = ConfiguredMaxSteps /\ InitVeh

NextAnyIds ==
    \/ \E df \in ResetArguments : Reset(df) /\ UNCHANGED envvars
    \/ \E ids \in AnySelections : StepEmpty(ids) /\ UNCHANGED envvars
    \/ \E ids \in AnySelections : StepLost(ids) /\ UNCHANGED envvars
    \/ \E ids \in AnySelections : StepDispatched(ids) /\ UNCHANGED envvars
    \/ \E ids \in AnySelections : StepRaise(ids) /\ UNCHANGED envvars

SpecAnyIds == InitAnyIds /\ [][NextAnyIds]_vars

\* incident tables of one row whose label and vehicle-count cell vary: the
\* column absent, the cell empty, or a number
CountCells == {None, NaN, Some(0), Some(1), Some(3)}
LabelRows ==
    { [call_time |-> 1, graph_node |-> <<5, 5>>, incident_profile_label |-> label,
       reaction_seconds |-> 0, on_scene_seconds |-> 1, Incident_Number |-> 10,
       dispatched_vehicle_count |-> cell] :
         label \in Labels, cell \in CountCells }

\* the state after Simulator(config, event_df) for a table of one row
InitLabels ==
    /\ cooldown_seconds = 1
    /\ max_steps = ConfiguredMaxSteps
    /\ engines = init_engines
    /\ pending_events \in {generate_events(<<row>>) : row \in LabelRows}
    /\ finished_events = <<>>
    /\ response_times = <<>>
    /\ dispatch_history = <<>>
    /\ time = 0
    /\ step_count = 0
    /\ last_sorted_actions = <<>>
    /\ obs_dim = ConfiguredObsDim
    /\ obs_engine_count = ConfiguredObsEngineCount
    /\ obs = None
    /\ env_done = None
    /\ ranked = None
    /\ ret = NoReturn
    /\ last = Called("reset", "table", -1, 0, <<>>, 0)
    /\ trail = [k \in DOMAIN fleet |-> <<"available">>]
    /\ advanced = [k \in DOMAIN fleet |-> 0]
    /\ popped = <<>>
    /\ lost = <<>>
    /\ loaded = ids_of(pending_events)
    /\ InitVeh

NextLabels ==
    \/ \E ids \in Selections : StepEmpty(ids) /\ UNCHANGED envvars
    \/ \E ids \in Selections : StepLost(ids) /\ UNCHANGED envvars
    \/ \E ids \in Selections : StepDispatched(ids) /\ UNCHANGED envvars
    \/ \E ids \in Selections : StepRaiseCount(ids) /\ UNCHANGED envvars

SpecLabels == InitLabels /\ [][NextLabels]_vars

\* a Simulator in the middle of a run whose encoder configuration varies
InitObs ==
    /\ cooldown_seconds = 1
    /\ max_steps = ConfiguredMaxSteps
    /\ engines \in Fleets
    /\ pending_events \in Queues
    /\ finished_events = <<>>
    /\ response_times = <<>>
    /\ dispatch_history = <<>>
    /\ time = 0
    /\ step_count = 0
    /\ last_sorted_actions = <<>>
    /\ obs_dim \in ObsDimChoices
    /\ obs_engine_count \in ObsEngineCountChoices
    /\ obs = None
    /\ env_done = None
    /\ ranked = None
    /\ ret = NoReturn
    /\ last = Called("init", "none", -1, 0, <<>>, 0)
    /\ trail = [k \in DOMAIN fleet |-> <<engines[k].status>>]
    /\ advanced = [k \in DOMAIN fleet |-> 0]
    /\ popped = <<>>
    /\ lost = <<>>
    /\ loaded = ids_of(pending_events)
    /\ InitVeh

NextObs == ObsCall

SpecObs == InitObs /\ [][NextObs]_vars

\* the Simulator's steps with calls of the ranking and of the encoder in
\* between; a step forgets what the last calls returned
NextReadOnly ==
    \/ RankCall
    \/ ObsCall
    \/ \E ids \in ProbeSelections : StepEmpty(ids) /\ ranked' = None /\ obs' = None
                                       /\ UNCHANGED <<last_sorted_actions, obs_dim,
                                                      obs_engine_count, env_done>>
    \/ \E ids \in ProbeSelections : StepLost(ids) /\ ranked' = None /\ obs' = None
                                       /\ UNCHANGED <<last_sorted_actions, obs_dim,
                                                      obs_engine_count, env_done>>
    \/ \E ids \in ProbeSelections : StepDispatched(ids) /\ ranked' = None /\ obs' = None
                                       /\ UNCHANGED <<last_sorted_actions, obs_dim,
                                                      obs_engine_count, env_done>>

InitReadOnly == InitEnv /\ cooldown_seconds = 1

SpecReadOnly == InitReadOnly /\ [][NextReadOnly]_vars

SpecEngine == Init /\ [][NextEngine]_vars

====
